---- MODULE Spec2Model ----
(***************************************************************************)
(* A model of slack_history.py: the paginated history retrieval            *)
(* (getHistory), the timestamp decoding (parseTimeStamp), the relocation   *)
(* of a renamed conversation's directory (channelRename), the archive file *)
(* writer (writeMessageFile), the day partitioning pass (parseMessages)    *)
(* and the per-channel driver (getChannels).                               *)
(*                                                                         *)
(* A timestamp string is a sequence of one-character strings.  The empty   *)
(* string '' is the empty sequence <<>>.  A date string 'YYYY-MM-DD' is    *)
(* the triple <<Y, M, D>> of its three numeric fields.  A directory or     *)
(* conversation name is a TLA+ string: names are only compared.  All paths *)
(* lie under one parentDir, so a directory is named by its room name and a *)
(* file '{parent}/{room}/{file}.json' by the pair of room and file date.   *)
(***************************************************************************)
EXTENDS Integers, Sequences, FiniteSets, TLC

VARIABLES
    pc,               \* position of the program
    history,          \* the remote conversation, oldest first
    channelName,      \* channel['name'], the conversation's current name
    pageSize,         \* getHistory: pageSize
    messages,         \* getHistory: messages; parseMessages: messages
    lastTimestamp,    \* getHistory: lastTimestamp
    requests,         \* number of calls of pageableObject.history
    fs,               \* the directories under parentDir and their files
    fs0,              \* the filesystem when the operation under study started
    roomType,         \* parseMessages: roomType
    roomDir,          \* parseMessages: roomDir
    startDir,         \* parseMessages: the roomDir argument as passed
    currentFileDate,  \* parseMessages: currentFileDate
    currentMessages,  \* parseMessages: currentMessages
    idx,              \* parseMessages: index of the next message of the loop
    writes,           \* the calls of writeMessageFile so far, in order
    relocs,           \* the calls of channelRename so far, in order
    raised,           \* the exception that ended the operation, or "none"
    timeStamp,        \* parseTimeStamp: its argument
    tsResult,         \* parseTimeStamp: its outcome
    oldRoomName,      \* channelRename: its first argument
    newRoomName       \* channelRename: its second argument

vars == <<pc, history, channelName, pageSize, messages, lastTimestamp, requests,
          fs, fs0, roomType, roomDir, startDir, currentFileDate, currentMessages,
          idx, writes, relocs, raised, timeStamp, tsResult, oldRoomName,
          newRoomName>>

(***************************************************************************)
(* Bounds of the model.                                                    *)
(***************************************************************************)
MaxLen == 4

MaxMsgs == 3

MaxRenames == 2

MaxPageSize == 3

(***************************************************************************)
(* Strings.                                                                *)
(***************************************************************************)
Range(s) == {s[i] : i \in 1..Len(s)}

DigitChars == <<"0", "1", "2", "3", "4", "5", "6", "7", "8", "9">>

IsDigit(c) == \E d \in 1..10 : DigitChars[d] = c

DigitVal(c) == (CHOOSE d \in 1..10 : DigitChars[d] = c) - 1

RECURSIVE ToDigits(_)
ToDigits(n) ==
    IF n < 10 THEN <<DigitChars[n + 1]>>
    ELSE ToDigits(n \div 10) \o <<DigitChars[(n % 10) + 1]>>

RECURSIVE DigitsValue(_)
DigitsValue(s) ==
    IF s = <<>> THEN 0
    ELSE 10 * DigitsValue(SubSeq(s, 1, Len(s) - 1)) + DigitVal(s[Len(s)])

\* str.split(sep) for a one-character separator: the parts between the
\* separators, one more part than there are separators.
RECURSIVE Split(_, _)
Split(s, sep) ==
    IF \A i \in 1..Len(s) : s[i] # sep THEN <<s>>
    ELSE LET i == CHOOSE k \in 1..Len(s) :
                      s[k] = sep /\ \A j \in 1..(k - 1) : s[j] # sep
         IN <<SubSeq(s, 1, i - 1)>> \o Split(SubSeq(s, i + 1, Len(s)), sep)

Reverse(s) == [i \in 1..Len(s) |-> s[Len(s) + 1 - i]]

Take(s, n) == SubSeq(s, 1, IF n < Len(s) THEN n ELSE Len(s))

(***************************************************************************)
(* Outcomes of a call: a returned value, a returned None, or an exception. *)
(***************************************************************************)
Value(v) == [tag |-> "value", val |-> v, exc |-> "none"]

None == [tag |-> "none", val |-> 0, exc |-> "none"]

Raise(e) == [tag |-> "raise", val |-> 0, exc |-> e]

\* float(s) for a string over the digits, '.' and letters: the number for a
\* non-empty run of digits, ValueError otherwise.
Float(s) ==
    IF s # <<>> /\ \A i \in 1..Len(s) : IsDigit(s[i])
    THEN Value(DigitsValue(s))
    ELSE Raise("ValueError")

\* datetime.utcfromtimestamp(seconds): the instant in whole seconds since
\* the epoch, in UTC.
utcfromtimestamp(seconds) == seconds

SecondsPerDay == 86400

\* The calendar date of the day that lies days whole days after the 1st of
\* January 1970, as <<year, month, day>>.
CivilDate(days) ==
    LET z    == days + 719468
        era  == z \div 146097
        doe  == z % 146097
        yoe  == (doe - (doe \div 1460) + (doe \div 36524) - (doe \div 146096)) \div 365
        doy  == doe - (365 * yoe + (yoe \div 4) - (yoe \div 100))
        mp   == (5 * doy + 2) \div 153
        d    == doy - ((153 * mp + 2) \div 5) + 1
        m    == IF mp < 10 THEN mp + 3 ELSE mp - 9
        y    == yoe + era * 400 + (IF m <= 2 THEN 1 ELSE 0)
    IN <<y, m, d>>

\* The date in a zone one hour west of UTC, as datetime.fromtimestamp gives
\* it there.
FormatDateLocal(ts) == CivilDate((ts - 3600) \div SecondsPerDay)

\* '{:%Y-%m-%d}'.format(ts): the UTC calendar date of the instant ts.
FormatDate(ts) == CivilDate(ts \div SecondsPerDay)

\* A parseTimeStamp that takes a string without separator for whole seconds.
parseTimeStampLenient(ts) ==
    IF "." \in Range(ts)
    THEN LET t_list == Split(ts, ".")
         IN IF Len(t_list) # 2 THEN Raise("ValueError")
            ELSE LET f == Float(t_list[1])
                 IN IF f.tag = "raise" THEN f ELSE Value(utcfromtimestamp(f.val))
    ELSE LET f == Float(ts)
         IN IF f.tag = "raise" THEN f ELSE Value(utcfromtimestamp(f.val))

\* create datetime object from slack timestamp ('ts') string
parseTimeStamp(ts) ==
    IF "." \in Range(ts)
    THEN LET t_list == Split(ts, ".")
         IN IF Len(t_list) # 2 THEN Raise("ValueError")
            ELSE LET f == Float(t_list[1])
                 IN IF f.tag = "raise" THEN f ELSE Value(utcfromtimestamp(f.val))
    ELSE None

(***************************************************************************)
(* The filesystem under parentDir: a function from the names of the        *)
(* directories that exist to their files, each a function from the file    *)
(* names that exist to the file's content.                                 *)
(***************************************************************************)
EmptyDir == [k \in {} |-> <<>>]

isdir(f, directory) == directory \in DOMAIN f

RemoveDir(f, directory) == [d \in (DOMAIN f) \ {directory} |-> f[d]]

\* mkdir(directory): create the directory unless it exists.
mkdir(f, directory) ==
    IF ~isdir(f, directory) THEN (directory :> EmptyDir) @@ f ELSE f

\* A writer that opens the file for appending: what is there stays.
writeMessageFileAppend(f, room, file, msgs) ==
    LET g == IF ~isdir(f, room) THEN mkdir(f, room) ELSE f
    IN [g EXCEPT ![room] = [k \in (DOMAIN @) \cup {file} |->
                                IF k = file
                                THEN (IF file \in DOMAIN @ THEN @[file] ELSE <<>>) \o msgs
                                ELSE @[k]]]

\* writeMessageFile(fileName, messages), fileName being
\* '{parent}/{room}/{file}.json': create the directory if it is absent and
\* open the file for writing, which truncates it.
writeMessageFile(f, room, file, msgs) ==
    LET g == IF ~isdir(f, room) THEN mkdir(f, room) ELSE f
    IN [g EXCEPT ![room] = [k \in (DOMAIN @) \cup {file} |->
                                IF k = file THEN msgs ELSE @[k]]]

\* The filesystem after the entries of moved have gone from old into new.
MoveEntries(f, old, new, moved) ==
    [d \in DOMAIN f |->
        IF d = new
        THEN [k \in (DOMAIN f[new]) \cup moved |->
                 IF k \in moved THEN f[old][k] ELSE f[new][k]]
        ELSE IF d = old
        THEN [k \in (DOMAIN f[old]) \ moved |-> f[old][k]]
        ELSE f[d]]

\* A relocation that leaves the emptied old directory in place.
channelRenameKeepOld(f, oldRoom, newRoom) ==
    IF ~isdir(f, oldRoom) THEN {[fs |-> f, raised |-> "none"]}
    ELSE LET g       == mkdir(f, newRoom)
             entries == DOMAIN g[oldRoom]
             clash   == {k \in entries : k \in DOMAIN g[newRoom]}
         IN IF clash = {}
            THEN {[fs |-> MoveEntries(g, oldRoom, newRoom, entries), raised |-> "none"]}
            ELSE {[fs |-> MoveEntries(g, oldRoom, newRoom, moved),
                   raised |-> "shutil.Error"] : moved \in SUBSET (entries \ clash)}

\* A relocation that makes the new directory before it looks for the old one.
channelRenameMkdirFirst(f, oldRoom, newRoom) ==
    LET g       == mkdir(f, newRoom)
    IN IF ~isdir(g, oldRoom) THEN {[fs |-> g, raised |-> "none"]}
       ELSE LET entries == DOMAIN g[oldRoom]
                clash   == {k \in entries : k \in DOMAIN g[newRoom]}
            IN IF clash = {}
               THEN {[fs |-> RemoveDir(MoveEntries(g, oldRoom, newRoom, entries), oldRoom),
                      raised |-> "none"]}
               ELSE {[fs |-> MoveEntries(g, oldRoom, newRoom, moved),
                      raised |-> "shutil.Error"] : moved \in SUBSET (entries \ clash)}

\* move channel files from old directory to one with new channel name.
\* shutil.move(src, dst) into an existing directory dst raises shutil.Error
\* when dst already has an entry of that name; os.listdir gives the entries
\* in an arbitrary order, so any of the other entries may have been moved
\* when the error is raised.  The set of the possible outcomes.
channelRename(f, oldRoom, newRoom) ==
    IF ~isdir(f, oldRoom) THEN {[fs |-> f, raised |-> "none"]}
    ELSE LET g       == mkdir(f, newRoom)
             entries == DOMAIN g[oldRoom]
             clash   == {k \in entries : k \in DOMAIN g[newRoom]}
         IN IF clash = {}
            THEN {[fs |-> RemoveDir(MoveEntries(g, oldRoom, newRoom, entries), oldRoom),
                   raised |-> "none"]}
            ELSE {[fs |-> MoveEntries(g, oldRoom, newRoom, moved),
                   raised |-> "shutil.Error"] : moved \in SUBSET (entries \ clash)}

(***************************************************************************)
(* Messages.  A message is a record of the fields the program reads; the   *)
(* subtype "none" stands for a message without the key 'subtype'.          *)
(***************************************************************************)
Names == {"foo", "bar", "baz"}

\* The value of the field ts of a message that has no key 'ts'.
Absent == <<"absent">>

Plain(ts) == [ts |-> ts, subtype |-> "none", old_name |-> "", name |-> ""]

Rename(ts, type, old, new) ==
    [ts |-> ts, subtype |-> type \o "_name", old_name |-> old, name |-> new]

\* The timestamp string of the instant n seconds after the epoch.
TsString(n) == ToDigits(n) \o <<".", "0">>

\* A message of an earlier run, found in a file that is already there.
Stale(room) ==
    [ts |-> <<"0", ".", "0">>, subtype |-> "none", old_name |-> "", name |-> room]

\* A call of writeMessageFile or channelRename, with the index of the message
\* the loop was at (one past the last message for the write after the loop).
WriteCall(at, room, file, msgs) ==
    [at |-> at, room |-> room, file |-> file, msgs |-> msgs]

RenameCall(at, old, new) == [at |-> at, old |-> old, new |-> new]

(***************************************************************************)
(* Values of the variables an operation does not use.                      *)
(***************************************************************************)
NoFetch ==
    /\ history = <<>>
    /\ channelName = ""
    /\ pageSize = 0
    /\ lastTimestamp = None
    /\ requests = 0

NoParse ==
    /\ messages = <<>>
    /\ roomType = ""
    /\ roomDir = ""
    /\ startDir = ""
    /\ currentFileDate = <<>>
    /\ currentMessages = <<>>
    /\ idx = 0
    /\ writes = <<>>

NoTimeStamp ==
    /\ timeStamp = <<>>
    /\ tsResult = None

NoRename ==
    /\ oldRoomName = ""
    /\ newRoomName = ""

fetchVars == <<history, channelName, pageSize, lastTimestamp, requests>>

parseVars == <<roomType, roomDir, startDir, currentFileDate, currentMessages,
               idx, writes>>

tsVars == <<timeStamp, tsResult>>

renameVars == <<oldRoomName, newRoomName>>

(***************************************************************************)
(* parseTimeStamp on its own: a call on each string of at most MaxLen      *)
(* characters over a digit, the separator and a letter, and on the         *)
(* timestamp of a real message.                                            *)
(***************************************************************************)
TsAlphabet == {"1", "5", ".", "a"}

TsInputs ==
    UNION {[1..n -> TsAlphabet] : n \in 0..MaxLen}
        \cup {<<"1", "5", "7", "9", "0", "0", "0", "0", "0", "0", ".",
                "1", "2", "3", "4", "5", "6">>,
              <<"a", "b", "c">>,
              <<"1", ".", "2", ".", "3">>}

InitTs ==
    /\ pc = "ts_call"
    /\ timeStamp \in TsInputs
    /\ tsResult = None
    /\ fs = <<>>
    /\ fs0 = <<>>
    /\ relocs = <<>>
    /\ raised = "none"
    /\ NoFetch
    /\ NoParse
    /\ NoRename

ParseTimeStampCall ==
    /\ pc = "ts_call"
    /\ tsResult' = parseTimeStamp(timeStamp)
    /\ pc' = "ts_done"
    /\ UNCHANGED <<timeStamp, fs, fs0, relocs, raised, messages, fetchVars,
                   parseVars, renameVars>>

NextTs == ParseTimeStampCall

SpecTs == InitTs /\ [][NextTs]_vars

(***************************************************************************)
(* channelRename on its own: a call on each pair of names in each          *)
(* filesystem whose directories hold files of an earlier run.              *)
(***************************************************************************)
FileDates == {<<>>, <<2020, 1, 14>>, <<2020, 1, 15>>}

\* The directories that can be there before a run: each holds some files,
\* each file holding a message of the room it was written for.
DirsOf(room, dates) == {[k \in ks |-> <<Stale(room)>>] : ks \in SUBSET dates}

FilesystemsOver(rooms, dates) ==
    UNION {{[d \in ds |-> content[d]] :
               content \in [ds -> UNION {DirsOf(r, dates) : r \in rooms}]} :
           ds \in SUBSET rooms}

InitRename ==
    /\ pc = "rename_call"
    /\ fs \in {f \in FilesystemsOver(Names, FileDates) :
                  \A d \in DOMAIN f : f[d] \in DirsOf(d, FileDates)}
    /\ fs0 = fs
    /\ oldRoomName \in Names
    /\ newRoomName \in Names
    /\ relocs = <<>>
    /\ raised = "none"
    /\ NoFetch
    /\ NoParse
    /\ NoTimeStamp

ChannelRenameCall ==
    /\ pc = "rename_call"
    /\ \E out \in channelRename(fs, oldRoomName, newRoomName) :
          /\ fs' = out.fs
          /\ raised' = out.raised
    /\ relocs' = Append(relocs, RenameCall(0, oldRoomName, newRoomName))
    /\ pc' = "rename_done"
    /\ UNCHANGED <<fs0, messages, fetchVars, parseVars, tsVars, renameVars>>

NextRename == ChannelRenameCall

SpecRename == InitRename /\ [][NextRename]_vars

(***************************************************************************)
(* parseMessages: one step per message of the loop, and the write after    *)
(* the loop.                                                               *)
(***************************************************************************)
nameChangeFlag(type) == type \o "_name"

\* A day test that takes every message for the first of a new day.
DayChangedAlways(fileDate, current) == TRUE

\* A day test that does not take the first message for a change of day.
DayChangedNotFirst(fileDate, current) == current # <<>> /\ fileDate # current

\* if it's on a different day, write out the previous day's messages
DayChanged(fileDate, current) == fileDate # current

\* check if current message is a name change; dms won't have name change
\* events
IsNameChange(type, message) ==
    /\ type # "im"
    /\ message.subtype # "none"
    /\ message.subtype = nameChangeFlag(type)

\* The body of the loop for the message at idx.
ParseStep ==
    /\ pc = "parse"
    /\ idx <= Len(messages)
    /\ LET message == messages[idx]
           ts      == IF message.ts = Absent THEN Raise("KeyError")
                      ELSE parseTimeStamp(message.ts)
       IN IF ts.tag # "value"
          THEN \* message['ts'] or parseTimeStamp raised, or parseTimeStamp
               \* returned None and the format raised
               /\ raised' = (IF ts.tag = "raise" THEN ts.exc ELSE "TypeError")
               /\ pc' = "aborted"
               /\ UNCHANGED <<fs, roomDir, currentFileDate, currentMessages, idx,
                              writes, relocs>>
          ELSE LET fileDate == FormatDate(ts.val)
                   flush    == DayChanged(fileDate, currentFileDate)
                   f1       == IF flush
                               THEN writeMessageFile(fs, roomDir, currentFileDate,
                                                     currentMessages)
                               ELSE fs
                   bucket   == IF flush THEN <<>> ELSE currentMessages
               IN /\ writes' = (IF flush
                                THEN Append(writes, WriteCall(idx, roomDir, currentFileDate,
                                                              currentMessages))
                                ELSE writes)
                  /\ currentFileDate' = (IF flush THEN fileDate ELSE currentFileDate)
                  /\ IF IsNameChange(roomType, message)
                     THEN /\ roomDir' = message.name
                          /\ relocs' = Append(relocs, RenameCall(idx, message.old_name,
                                                              message.name))
                          /\ \E out \in channelRename(f1, message.old_name, message.name) :
                                /\ fs' = out.fs
                                /\ raised' = out.raised
                                /\ IF out.raised = "none"
                                   THEN /\ currentMessages' = Append(bucket, message)
                                        /\ idx' = idx + 1
                                        /\ pc' = "parse"
                                   ELSE /\ currentMessages' = bucket
                                        /\ idx' = idx
                                        /\ pc' = "aborted"
                     ELSE /\ fs' = f1
                          /\ currentMessages' = Append(bucket, message)
                          /\ idx' = idx + 1
                          /\ UNCHANGED <<roomDir, relocs, raised, pc>>
    /\ UNCHANGED <<fs0, messages, roomType, startDir, fetchVars, tsVars, renameVars>>

\* The write of the last bucket, after the loop.
ParseFinish ==
    /\ pc = "parse"
    /\ idx > Len(messages)
    /\ fs' = writeMessageFile(fs, roomDir, currentFileDate, currentMessages)
    /\ writes' = Append(writes, WriteCall(idx, roomDir, currentFileDate,
                                          currentMessages))
    /\ pc' = "done"
    /\ UNCHANGED <<fs0, messages, roomType, roomDir, startDir, currentFileDate,
                   currentMessages, idx, relocs, raised, fetchVars, tsVars,
                   renameVars>>

(***************************************************************************)
(* parseMessages on its own: a call on each time-ordered sequence of at    *)
(* most MaxMsgs messages, of which at most MaxRenames are name changes,    *)
(* for each room and room type, in each filesystem an earlier run can have *)
(* left.                                                                   *)
(***************************************************************************)
\* Two instants of the 14th of January 2020 and the midnights (UTC) that
\* begin the 15th and the 16th.
TsPool == {1579000000, 1579040000, 1579046400, 1579132800}

RECURSIVE SortedSeq(_)
SortedSeq(S) ==
    IF S = {} THEN <<>>
    ELSE LET m == CHOOSE x \in S : \A y \in S : x <= y
         IN <<m>> \o SortedSeq(S \ {m})

\* A message is a plain one or the event of a rename from one name to another.
Kinds ==
    {<<"plain", "", "">>}
        \cup {k \in {<<"rename", o, n>> : o \in Names, n \in Names} : k[2] # k[3]}

MakeMessage(t, kind) ==
    IF kind[1] = "plain" THEN Plain(TsString(t))
    ELSE Rename(TsString(t), "channel", kind[2], kind[3])

TimeOrderedInputs ==
    UNION {{[i \in 1..Cardinality(T) |-> MakeMessage(SortedSeq(T)[i], kinds[i])] :
               kinds \in {k \in [1..Cardinality(T) -> Kinds] :
                             Cardinality({i \in 1..Cardinality(T) : k[i][1] = "rename"})
                                 <= MaxRenames}} :
           T \in {U \in SUBSET TsPool : Cardinality(U) <= MaxMsgs}}

StaleDates == {<<>>}

\* What an earlier run can have left under parentDir: nothing, or one
\* directory holding the file of the empty date.
LeftOver ==
    {f \in FilesystemsOver(Names, StaleDates) :
        /\ Cardinality(DOMAIN f) <= 1
        /\ \A d \in DOMAIN f : f[d] \in DirsOf(d, StaleDates) /\ DOMAIN f[d] # {}}

InitParse ==
    /\ pc = "parse"
    /\ messages \in TimeOrderedInputs
    /\ roomType \in {"channel", "im"}
    /\ startDir \in Names
    /\ roomDir = startDir
    /\ fs \in LeftOver
    /\ fs0 = fs
    /\ currentFileDate = <<>>
    /\ currentMessages = <<>>
    /\ idx = 1
    /\ writes = <<>>
    /\ relocs = <<>>
    /\ raised = "none"
    /\ NoFetch
    /\ NoTimeStamp
    /\ NoRename

NextParse == ParseStep \/ ParseFinish

SpecParse == InitParse /\ [][NextParse]_vars

(***************************************************************************)
(* getHistory, against the remote history endpoint.                        *)
(***************************************************************************)
\* The instant a timestamp string of the remote stands for, in whole seconds.
TsSeconds(ts) == DigitsValue(Split(ts, ".")[1])

\* pageableObject.history(channel, latest, oldest = 0, count).body: the count
\* newest messages strictly older than latest (all of them when latest is
\* None), newest first, and has_more exactly when older messages remain.
RemoteHistory(conversation, latest, count) ==
    LET older == IF latest.tag = "none" THEN conversation
                 ELSE SelectSeq(conversation,
                                LAMBDA m : TsSeconds(m.ts) < TsSeconds(latest.val))
    IN [messages |-> Take(Reverse(older), count),
        has_more |-> Len(older) > count]

\* messages.extend(response['messages'])
Extend(msgs, page) == msgs \o page

\* A loop test that goes on as long as a page brings messages.
HasMoreWhilePage(response) == response.messages # <<>>

\* response['has_more'] == True
HasMore(response) == response.has_more = TRUE

\* The cursor taken from the first element of the list.
FirstTs(msgs) == msgs[1].ts

\* messages[-1]['ts'], -1 means last element in a list
LastTs(msgs) == msgs[Len(msgs)].ts

\* One turn of the loop of getHistory: a page request, the extension of the
\* accumulator, and either the move of the cursor or the return.
FetchPage ==
    /\ pc = "fetch"
    /\ requests <= MaxMsgs + 1
    /\ LET response == RemoteHistory(history, lastTimestamp, pageSize)
           extended == Extend(messages, response.messages)
       IN /\ requests' = requests + 1
          /\ messages' = extended
          /\ IF HasMore(response)
             THEN IF extended = <<>>
                  THEN /\ raised' = "IndexError"
                       /\ pc' = "aborted"
                       /\ UNCHANGED lastTimestamp
                  ELSE /\ lastTimestamp' = Value(LastTs(extended))
                       /\ UNCHANGED <<pc, raised>>
             ELSE /\ pc' = "fetched"
                  /\ UNCHANGED <<lastTimestamp, raised>>
    /\ UNCHANGED <<history, channelName, pageSize, fs, fs0, relocs, parseVars,
                   tsVars, renameVars>>

(***************************************************************************)
(* getChannels for one channel: the directory of the channel's current     *)
(* name, then getHistory, then parseMessages on what getHistory returned.  *)
(***************************************************************************)
\* mkdir( os.path.join( parentDir, channelDir ) )
DriverMkdir ==
    /\ pc = "start"
    /\ fs' = mkdir(fs, channelName)
    /\ pc' = "fetch"
    /\ UNCHANGED <<fs0, messages, relocs, raised, fetchVars, parseVars, tsVars,
                   renameVars>>

\* parseMessages( parentDir, channelDir, messages, 'channel')
DriverParse ==
    /\ pc = "fetched"
    /\ roomType' = "channel"
    /\ startDir' = channelName
    /\ roomDir' = channelName
    /\ currentFileDate' = <<>>
    /\ currentMessages' = <<>>
    /\ idx' = 1
    /\ pc' = "parse"
    /\ UNCHANGED <<fs, fs0, messages, writes, relocs, raised, fetchVars, tsVars,
                   renameVars>>

\* The histories of a channel: its messages in the order of their
\* timestamps, each rename leading from the name the channel has at that
\* time to another one.  first is the channel's first name.
ChannelHistories(first) ==
    {h \in TimeOrderedInputs :
        \A i \in 1..Len(h) :
            h[i].subtype = "channel_name" =>
                h[i].old_name =
                    (IF \E j \in 1..(i - 1) : h[j].subtype = "channel_name"
                     THEN h[CHOOSE j \in 1..(i - 1) :
                               /\ h[j].subtype = "channel_name"
                               /\ \A k \in (j + 1)..(i - 1) :
                                     h[k].subtype # "channel_name"].name
                     ELSE first)}

\* The name the channel has after its history.
CurrentName(first, h) ==
    IF \E j \in 1..Len(h) : h[j].subtype = "channel_name"
    THEN h[CHOOSE j \in 1..Len(h) :
              /\ h[j].subtype = "channel_name"
              /\ \A k \in (j + 1)..Len(h) : h[k].subtype # "channel_name"].name
    ELSE first

Init ==
    /\ pc = "start"
    /\ \E first \in Names :
          /\ history \in ChannelHistories(first)
          /\ channelName = CurrentName(first, history)
    /\ pageSize \in 1..MaxPageSize
    /\ fs \in LeftOver
    /\ fs0 = fs
    /\ messages = <<>>
    /\ lastTimestamp = None
    /\ requests = 0
    /\ roomType = ""
    /\ roomDir = ""
    /\ startDir = ""
    /\ currentFileDate = <<>>
    /\ currentMessages = <<>>
    /\ idx = 0
    /\ writes = <<>>
    /\ relocs = <<>>
    /\ raised = "none"
    /\ NoTimeStamp
    /\ NoRename

Next == DriverMkdir \/ FetchPage \/ DriverParse \/ ParseStep \/ ParseFinish

Spec == Init /\ [][Next]_vars

(***************************************************************************)
(* Properties of getHistory and of the driver, under Spec.                 *)
(***************************************************************************)
Count(seq, x) == Cardinality({i \in 1..Len(seq) : seq[i] = x})

Ceil(k, p) == (k + p - 1) \div p

HasRename(h) == \E i \in 1..Len(h) : h[i].subtype = "channel_name"

\* C1: completeness of getHistory.  When getHistory has returned, it did so
\* without an error and its result holds every message of the conversation
\* exactly once and nothing else; for an empty conversation it is empty.
C1_Complete ==
    pc = "fetched" =>
        /\ raised = "none"
        /\ Len(messages) = Len(history)
        /\ \A i \in 1..Len(history) : Count(messages, history[i]) = 1

\* A conversation of three messages fetched in two pages of two.
C1_Witness ==
    /\ pc = "fetched"
    /\ Len(history) = 3
    /\ pageSize = 2
    /\ requests = 2

\* C2: result order of getHistory.  The returned sequence is ordered
\* oldest-first: its timestamps never decrease from one element to the next.
C2_OldestFirst ==
    pc = "fetched" =>
        \A i \in 1..Len(messages), j \in 1..Len(messages) :
            i < j => TsSeconds(messages[i].ts) <= TsSeconds(messages[j].ts)

\* C10: request count of getHistory.  For K messages and page size
\* pageSize, getHistory issues exactly ceil(K / pageSize) page requests.
C10_RequestCount ==
    pc = "fetched" => requests = Ceil(Len(history), pageSize)

\* C10, amended: getHistory issues exactly ceil(K / pageSize) page requests
\* when K >= 1, and exactly one request when the conversation is empty.
C10_RequestCountOrOne ==
    pc = "fetched" =>
        requests = (IF Len(history) = 0 THEN 1 ELSE Ceil(Len(history), pageSize))

\* A conversation that fills its one page exactly.
C10_Witness ==
    /\ pc = "fetched"
    /\ Len(history) = 2
    /\ pageSize = 2
    /\ requests = 1

\* The content of a file that an earlier run left.
IsStale(content) == \E r \in Names : content = <<Stale(r)>>

\* C6: continuity across renames, end to end.  When the driver has archived
\* a channel whose history holds a rename, starting from an empty output
\* root, every archive file lies in the directory of the channel's latest
\* name.
C6_SingleDirectory ==
    (pc = "done" /\ HasRename(history) /\ DOMAIN fs0 = {}) =>
        DOMAIN fs = {channelName}

(***************************************************************************)
(* Properties of parseMessages, under SpecParse.                           *)
(***************************************************************************)
\* The UTC date of a message of the inputs, all of January 2020: the 14th
\* is day 18275 of the epoch.
UtcDate(m) == <<2020, 1, 14 + ((TsSeconds(m.ts) \div 86400) - 18275)>>

AllFiles(f) == UNION {{<<d, k>> : k \in DOMAIN f[d]} : d \in DOMAIN f}

Holders(f, m) == {p \in AllFiles(f) : m \in Range(f[p[1]][p[2]])}

\* Where the relocations rs, those made at message from or later, take what
\* lies in room.
RECURSIVE Moved(_, _, _)
Moved(room, rs, from) ==
    IF rs = <<>> THEN room
    ELSE Moved(IF Head(rs).at >= from /\ room = Head(rs).old
               THEN Head(rs).new ELSE room,
               Tail(rs), from)

\* The directory name in effect once the renames of the messages before
\* message j have been applied.
RoomBefore(j) ==
    LET earlier == {q \in 1..Len(relocs) : relocs[q].at < j}
    IN IF earlier = {} THEN startDir
       ELSE relocs[CHOOSE q \in earlier : \A q2 \in earlier : q2 <= q].new

\* The message at which the bucket of message i is written: the first later
\* message of another date, or one past the end.
FlushAt(i) ==
    LET later == {j \in (i + 1)..Len(messages) :
                     UtcDate(messages[j]) # UtcDate(messages[i])}
    IN IF later = {} THEN Len(messages) + 1
       ELSE CHOOSE j \in later : \A j2 \in later : j <= j2

\* C3: exactly-once archival.  After parseMessages completes, every message
\* is in exactly one file, once, the file of its own UTC date, under the
\* directory name in effect when the message was processed, as moved by the
\* later relocations.
C3_ExactlyOnce ==
    pc = "done" =>
        \A i \in 1..Len(messages) :
            /\ Holders(fs, messages[i]) =
                   {<<Moved(RoomBefore(i + 1), relocs, i + 1), UtcDate(messages[i])>>}
            /\ \A p \in Holders(fs, messages[i]) :
                   Count(fs[p[1]][p[2]], messages[i]) = 1

\* C3, amended: after parseMessages completes, every message is in exactly
\* one file, once, the file of its own UTC date, under the directory name in
\* effect when the message's bucket was written, as moved by the
\* relocations made from then on.
C3_ExactlyOnceWhereFlushed ==
    pc = "done" =>
        \A i \in 1..Len(messages) :
            /\ Holders(fs, messages[i]) =
                   {<<Moved(RoomBefore(FlushAt(i)), relocs, FlushAt(i)),
                      UtcDate(messages[i])>>}
            /\ \A p \in Holders(fs, messages[i]) :
                   Count(fs[p[1]][p[2]], messages[i]) = 1

\* A completed pass over three messages of two days with a rename between,
\* which moved an already written file.
C3_Witness ==
    /\ pc = "done"
    /\ Len(messages) = 3
    /\ Len(relocs) = 1
    /\ relocs[1].at = 3
    /\ relocs[1].old = startDir
    /\ UtcDate(messages[1]) # UtcDate(messages[2])

Dates(msgs) == {UtcDate(msgs[i]) : i \in 1..Len(msgs)}

OfDate(msgs, date) == SelectSeq(msgs, LAMBDA m : UtcDate(m) = date)

\* The files the pass produced: those that do not hold what an earlier run
\* left.
Produced == {p \in AllFiles(fs) : ~IsStale(fs[p[1]][p[2]])}

\* C4: day partition correctness.  For an input of n distinct dates,
\* parseMessages produces exactly n files, one per date, each holding
\* exactly the messages of its date in input order.
C4_OneFilePerDate ==
    pc = "done" =>
        /\ Len(writes) = Cardinality(Dates(messages))
        /\ Cardinality(Produced) = Cardinality(Dates(messages))
        /\ \A date \in Dates(messages) :
              \E p \in Produced :
                  /\ p[2] = date
                  /\ fs[p[1]][p[2]] = OfDate(messages, date)

\* C4, amended: for an input of n distinct dates, parseMessages produces
\* exactly n + 1 files: the file of the empty date, holding the empty list,
\* and one file per date, each holding exactly the messages of its date in
\* input order.
C4_OneFilePerDateAndSentinel ==
    pc = "done" =>
        /\ Len(writes) = Cardinality(Dates(messages)) + 1
        /\ Cardinality(Produced) = Cardinality(Dates(messages)) + 1
        /\ \E p \in Produced : p[2] = <<>> /\ fs[p[1]][p[2]] = <<>>
        /\ \A date \in Dates(messages) :
              \E p \in Produced :
                  /\ p[2] = date
                  /\ fs[p[1]][p[2]] = OfDate(messages, date)

\* A completed pass over three messages of three dates.
C4_Witness ==
    /\ pc = "done"
    /\ Len(messages) = 3
    /\ Cardinality(Dates(messages)) = 3

\* The writes made up to the relocation q lie in its old directory when it
\* is made.
HoldsEarlier(q) ==
    \A n \in 1..Len(writes) :
        writes[n].at <= relocs[q].at =>
            Moved(writes[n].room, SubSeq(relocs, 1, q - 1), writes[n].at)
                = relocs[q].old

\* After the pass, the old directory of the relocation q is gone, the new
\* one holds every file written before, and every later write went there.
Relocated(q) ==
    /\ relocs[q].old \notin DOMAIN fs
    /\ relocs[q].new \in DOMAIN fs
    /\ \A n \in 1..Len(writes) :
          IF writes[n].at <= relocs[q].at
          THEN /\ writes[n].file \in DOMAIN fs[relocs[q].new]
               /\ fs[relocs[q].new][writes[n].file] = writes[n].msgs
          ELSE writes[n].room = relocs[q].new

\* The rename messages of the stream, and the relocation made for one.
RenameMessages ==
    {i \in 1..Len(messages) :
        roomType # "im" /\ messages[i].subtype = roomType \o "_name"}

MadeFor(q, i) ==
    /\ relocs[q].at = i
    /\ relocs[q].old = messages[i].old_name
    /\ relocs[q].new = messages[i].name

\* C5: rename relocation.  For a rename message from A to B met when A
\* holds the files written so far: after parseMessages completes, A does not
\* exist, B holds every file that was in A, and every bucket written after
\* the rename message was written under B.
C5_Relocation ==
    pc = "done" =>
        \A i \in RenameMessages :
            \E q \in 1..Len(relocs) :
                MadeFor(q, i) /\ (HoldsEarlier(q) => Relocated(q))

\* C5, amended: the same, for a rename message that no later rename message
\* follows in the stream.
C5_LastRelocation ==
    pc = "done" =>
        \A i \in RenameMessages :
            (\A j \in RenameMessages : j <= i) =>
                \E q \in 1..Len(relocs) :
                    MadeFor(q, i) /\ (HoldsEarlier(q) => Relocated(q))

\* A completed pass whose third message is the last rename, after a file of
\* an earlier day was written to the old directory.
C5_Witness ==
    /\ pc = "done"
    /\ Len(messages) = 3
    /\ RenameMessages = {3}
    /\ Len(relocs) = 1
    /\ HoldsEarlier(1)
    /\ Relocated(1)
    /\ Len(writes) >= 3

\* C9: empty stream.  parseMessages on an empty sequence makes exactly one
\* write, of the empty list to the file of the empty date under roomDir,
\* makes no relocation and changes nothing else.
C9_EmptyStream ==
    (pc = "done" /\ messages = <<>>) =>
        /\ writes = <<WriteCall(1, startDir, <<>>, <<>>)>>
        /\ relocs = <<>>
        /\ DOMAIN fs = (DOMAIN fs0) \cup {startDir}
        /\ \A d \in (DOMAIN fs) \ {startDir} : fs[d] = fs0[d]
        /\ DOMAIN fs[startDir] =
               (IF startDir \in DOMAIN fs0 THEN DOMAIN fs0[startDir] ELSE {})
                   \cup {<<>>}
        /\ fs[startDir][<<>>] = <<>>

\* A completed pass over the empty sequence that wrote over a file of the
\* empty date left by an earlier run.
C9_Witness ==
    /\ pc = "done"
    /\ messages = <<>>
    /\ startDir \in DOMAIN fs0
    /\ <<>> \in DOMAIN fs0[startDir]

(***************************************************************************)
(* Properties of channelRename, under SpecRename.                          *)
(***************************************************************************)
\* C7: relocation into a non-empty target.  Called with an existing old
\* directory and a new directory that already holds files, channelRename
\* completes without error, the old directory is gone and every entry that
\* was in it is in the new one.
C7_NonEmptyTarget ==
    (/\ pc = "rename_done"
     /\ oldRoomName # newRoomName
     /\ oldRoomName \in DOMAIN fs0
     /\ newRoomName \in DOMAIN fs0
     /\ DOMAIN fs0[newRoomName] # {}) =>
        /\ raised = "none"
        /\ oldRoomName \notin DOMAIN fs
        /\ \A k \in DOMAIN fs0[oldRoomName] :
              /\ k \in DOMAIN fs[newRoomName]
              /\ fs[newRoomName][k] = fs0[oldRoomName][k]

(***************************************************************************)
(* Properties of parseTimeStamp, under SpecTs.                             *)
(***************************************************************************)
Dots(s) == {i \in 1..Len(s) : s[i] = "."}

\* Exactly one separator, and a non-empty run of digits before it.
WellFormed(s) ==
    /\ Cardinality(Dots(s)) = 1
    /\ \E i \in Dots(s) : i > 1 /\ \A j \in 1..(i - 1) : IsDigit(s[j])

\* C8: malformed timestamp rejection.  parseTimeStamp raises an error for
\* every string with no separator, with several separators or with a
\* non-numeric seconds part, and returns an instant for every other string;
\* it never returns None.
C8_MalformedRejected ==
    pc = "ts_done" =>
        IF WellFormed(timeStamp) THEN tsResult.tag = "value"
        ELSE tsResult.tag = "raise"

(***************************************************************************)
(* writeMessageFile on its own: up to MaxWrites calls, each on any path    *)
(* and any message list, in each filesystem an earlier run can have left.  *)
(***************************************************************************)
MaxWrites == 2

\* The lists of messages a call can write.
Contents ==
    {<<>>,
     <<Plain(TsString(1579000000))>>,
     <<Plain(TsString(1579040000))>>,
     <<Plain(TsString(1579000000)), Plain(TsString(1579040000))>>}

InitWrite ==
    /\ pc = "write_call"
    /\ fs \in LeftOver
    /\ fs0 = fs
    /\ relocs = <<>>
    /\ raised = "none"
    /\ NoFetch
    /\ NoParse
    /\ NoTimeStamp
    /\ NoRename

WriteMessageFileCall ==
    /\ pc = "write_call"
    /\ Len(writes) < MaxWrites
    /\ \E room \in Names, file \in FileDates, msgs \in Contents :
          /\ fs' = writeMessageFile(fs, room, file, msgs)
          /\ writes' = Append(writes, WriteCall(0, room, file, msgs))
    /\ UNCHANGED <<pc, fs0, relocs, raised, messages, roomType, roomDir, startDir,
                   currentFileDate, currentMessages, idx, fetchVars, tsVars,
                   renameVars>>

NextWrite == WriteMessageFileCall

SpecWrite == InitWrite /\ [][NextWrite]_vars

\* The last of the writes so far that went to the path of room and file, or
\* 0 when none did.
LastWriteTo(room, file) ==
    LET to == {n \in 1..Len(writes) :
                  writes[n].room = room /\ writes[n].file = file}
    IN IF to = {} THEN 0 ELSE CHOOSE n \in to : \A n2 \in to : n2 <= n

\* C11: overwrite, not merge.  A file that was written holds exactly the
\* list of the last write to its path and nothing of what any earlier write
\* or an earlier run put there; a path that was not written is as it was.
C11_Overwrite ==
    /\ \A room \in Names, file \in FileDates :
          IF LastWriteTo(room, file) # 0
          THEN /\ room \in DOMAIN fs
               /\ file \in DOMAIN fs[room]
               /\ fs[room][file] = writes[LastWriteTo(room, file)].msgs
          ELSE IF room \in DOMAIN fs0 /\ file \in DOMAIN fs0[room]
               THEN room \in DOMAIN fs /\ file \in DOMAIN fs[room]
                    /\ fs[room][file] = fs0[room][file]
               ELSE ~(room \in DOMAIN fs /\ file \in DOMAIN fs[room])
    /\ \A p \in AllFiles(fs) : p[1] \in Names /\ p[2] \in FileDates

\* Two writes of different non-empty lists to one path.
C11_Witness ==
    /\ Len(writes) = 2
    /\ writes[1].room = writes[2].room
    /\ writes[1].file = writes[2].file
    /\ writes[1].msgs # <<>>
    /\ writes[2].msgs # <<>>
    /\ writes[1].msgs # writes[2].msgs

(***************************************************************************)
(* getHistory on its own: a call on each conversation and page size.  The  *)
(* call runs without interruption, so a turn of its loop that can be taken *)
(* is taken.                                                               *)
(***************************************************************************)
InitFetch ==
    /\ pc = "fetch"
    /\ history \in UNION {ChannelHistories(first) : first \in Names}
    /\ channelName = ""
    /\ pageSize \in 1..MaxPageSize
    /\ lastTimestamp = None
    /\ requests = 0
    /\ fs = <<>>
    /\ fs0 = <<>>
    /\ relocs = <<>>
    /\ raised = "none"
    /\ NoParse
    /\ NoTimeStamp
    /\ NoRename

NextFetch == FetchPage

SpecFetch == InitFetch /\ [][NextFetch]_vars /\ WF_vars(FetchPage)

\* What a turn of the loop does with the answer of the remote: on has_more
\* the loop goes on, the cursor being the ts of the last message of the
\* accumulator and older than the cursor before; otherwise the call returns.
TurnFollowsAnswer ==
    pc = "fetch" =>
        IF RemoteHistory(history, lastTimestamp, pageSize).has_more
        THEN /\ pc' = "fetch"
             /\ messages' # <<>>
             /\ lastTimestamp' = Value(messages'[Len(messages')].ts)
             /\ lastTimestamp.tag = "value" =>
                    TsSeconds(lastTimestamp'.val) < TsSeconds(lastTimestamp.val)
        ELSE pc' = "fetched"

\* C12: termination of getHistory.  Every call eventually returns; each
\* request after the first carries the ts of the last message of the
\* accumulator, a cursor older than the one before; the loop stops at the
\* first answer without has_more, and no bound on the number of requests ever
\* stops it.
C12_Terminates ==
    /\ (pc = "fetch") ~> (pc = "fetched")
    /\ [][TurnFollowsAnswer]_vars
    /\ [](pc = "fetch" => requests <= MaxMsgs)

\* A call that returned after three requests, the cursor moved twice.
C12_Witness ==
    /\ pc = "fetched"
    /\ requests = 3
    /\ pageSize = 1
    /\ lastTimestamp.tag = "value"

(***************************************************************************)
(* getChannels for one channel when a page request can fail.               *)
(***************************************************************************)
\* A getHistory that ends its loop on a failed request and returns what it
\* has.
FetchFailReturnsPartial ==
    /\ pc = "fetch"
    /\ requests <= MaxMsgs + 1
    /\ requests' = requests + 1
    /\ pc' = "fetched"
    /\ UNCHANGED <<history, channelName, pageSize, lastTimestamp, messages, raised,
                   fs, fs0, relocs, parseVars, tsVars, renameVars>>

\* pageableObject.history(...) raises: neither getHistory nor getChannels
\* catches, so the exception ends the run; nothing is returned.
FetchFail ==
    /\ pc = "fetch"
    /\ requests <= MaxMsgs + 1
    /\ requests' = requests + 1
    /\ raised' = "TransportFailure"
    /\ pc' = "aborted"
    /\ UNCHANGED <<history, channelName, pageSize, lastTimestamp, messages, fs,
                   fs0, relocs, parseVars, tsVars, renameVars>>

NextFail ==
    DriverMkdir \/ FetchPage \/ FetchFail \/ DriverParse \/ ParseStep \/ ParseFinish

SpecFail == Init /\ [][NextFail]_vars

\* No file was written, moved or removed: every directory that was there
\* holds what it held, and a directory that was made holds nothing.
ArchiveUntouched ==
    /\ writes = <<>>
    /\ relocs = <<>>
    /\ (DOMAIN fs0) \subseteq (DOMAIN fs)
    /\ \A d \in DOMAIN fs : fs[d] = (IF d \in DOMAIN fs0 THEN fs0[d] ELSE EmptyDir)

\* C13: fetch failure leaves the archive untouched.  Until getHistory has
\* returned no file is written and nothing is relocated; getHistory returns
\* only the whole history; after a failed page request the run has ended
\* with that failure, parseMessages was never started, no file was created
\* or changed, and nothing further happens (no retry).
C13_FailureLeavesArchive ==
    /\ [](pc \in {"start", "fetch"} => ArchiveUntouched)
    /\ [](pc = "fetched" => (raised = "none" /\ Len(messages) = Len(history)))
    /\ [](raised = "TransportFailure" =>
              (pc = "aborted" /\ ArchiveUntouched /\ idx = 0 /\ roomDir = ""))
    /\ [][raised # "TransportFailure"]_vars

\* A request for the second page failed, with the first page in the
\* accumulator and a file of an earlier run in the output root.
C13_Witness ==
    /\ raised = "TransportFailure"
    /\ requests = 2
    /\ messages # <<>>
    /\ DOMAIN fs0 # {}

\* Day keys in calendar order, the empty key before every day.
DateLess(a, b) ==
    IF a = <<>> THEN b # <<>>
    ELSE /\ b # <<>>
         /\ \/ a[1] < b[1]
            \/ a[1] = b[1] /\ a[2] < b[2]
            \/ a[1] = b[1] /\ a[2] = b[2] /\ a[3] < b[3]

DayKeyChanges ==
    {i \in 1..Len(messages) :
        UtcDate(messages[i]) # (IF i = 1 THEN <<>> ELSE UtcDate(messages[i - 1]))}

\* C15: sentinel flush on a non-empty stream.  Once the first message of a
\* non-empty sequence has been seen, the first write is of the empty bucket
\* to the file of the empty day key in the directory the pass began with,
\* made at the first message; every later write is of a real day; and the
\* completed pass has written one file more than the day-key changes it
\* observed.
C15_SentinelFlush ==
    /\ (messages # <<>> /\ (idx > 1 \/ pc = "aborted")) => writes # <<>>
    /\ (messages # <<>> /\ writes # <<>>) =>
           /\ writes[1] = WriteCall(1, startDir, <<>>, <<>>)
           /\ \A n \in 2..Len(writes) : writes[n].file # <<>>
    /\ (messages # <<>> /\ pc = "done") =>
           Len(writes) = Cardinality(DayKeyChanges) + 1

\* A completed pass over three messages of two days.
C15_Witness ==
    /\ pc = "done"
    /\ Len(messages) = 3
    /\ Cardinality(DayKeyChanges) = 2
    /\ Len(writes) = 3

\* The filesystem channelRename is called on in the step of a name change:
\* the one before the step, with the bucket written if the step wrote it.
AtRenameCall ==
    IF writes' # writes
    THEN writeMessageFile(fs, roomDir, currentFileDate, currentMessages)
    ELSE fs

\* A step of parseMessages that calls channelRename with an old name that
\* is not a directory at that moment.
RenameOfAbsent ==
    /\ relocs' # relocs
    /\ ~isdir(AtRenameCall, messages[idx].old_name)

\* C16: relocation of an absent directory is a no-op.  When the old name is
\* not a directory, channelRename returns without error and leaves the
\* filesystem as it was (the new directory is not made, nothing is moved or
\* removed); parseMessages goes on with the new name as its directory, and
\* every write goes to the name in effect when it is made.
C16_AbsentRelocation ==
    /\ [][RenameOfAbsent =>
              /\ fs' = AtRenameCall
              /\ raised' = "none"
              /\ pc' = "parse"
              /\ idx' = idx + 1
              /\ roomDir' = messages[idx].name]_vars
    /\ [](\A n \in DOMAIN writes : writes[n].room = RoomBefore(writes[n].at))

\* The state after the relocation, at the first message, of a directory
\* that was never there to a name that has no directory either.
C16_Witness ==
    /\ pc = "parse"
    /\ idx = 2
    /\ raised = "none"
    /\ Len(relocs) = 1
    /\ relocs[1].at = 1
    /\ relocs[1].old # startDir
    /\ relocs[1].old \notin DOMAIN fs0
    /\ relocs[1].new \notin DOMAIN fs
    /\ roomDir = relocs[1].new

(***************************************************************************)
(* parseMessages on a sequence of which one message has no usable ts: the  *)
(* history of a channel, in the order of its timestamps, with the ts of    *)
(* one message absent or replaced by a malformed string.                   *)
(***************************************************************************)
\* No separator, two separators, letters for seconds, nothing for seconds.
BadTs ==
    {Absent,
     ToDigits(1579000000),
     <<"1", ".", "2", ".", "3">>,
     <<"a", "b", "c", ".", "0">>,
     <<".", "0">>}

InitParseBad ==
    /\ pc = "parse"
    /\ startDir \in Names
    /\ \E h \in ChannelHistories(startDir) : \E i \in DOMAIN h : \E b \in BadTs :
          messages = [h EXCEPT ![i].ts = b]
    /\ roomType = "channel"
    /\ roomDir = startDir
    /\ fs \in LeftOver
    /\ fs0 = fs
    /\ currentFileDate = <<>>
    /\ currentMessages = <<>>
    /\ idx = 1
    /\ writes = <<>>
    /\ relocs = <<>>
    /\ raised = "none"
    /\ NoFetch
    /\ NoTimeStamp
    /\ NoRename

NextParseBad == ParseStep

SpecParseBad == InitParseBad /\ [][NextParseBad]_vars

Malformed(ts) == ts = Absent \/ ~WellFormed(ts)

\* parseMessages is about to process a message whose ts is absent or
\* malformed.
AtMalformed ==
    /\ pc = "parse"
    /\ idx <= Len(messages)
    /\ Malformed(messages[idx].ts)

\* C17: fail-fast on a malformed timestamp.  At a message whose ts is absent
\* or malformed parseMessages aborts with an error, writing and relocating
\* nothing; nothing happens after the abort, so the pass never completes;
\* the open bucket is in no file, every write was made at an earlier
\* message, and the filesystem is the one the earlier messages left.
C17_FailFast ==
    /\ [][AtMalformed =>
              /\ pc' = "aborted"
              /\ raised' # "none"
              /\ fs' = fs
              /\ writes' = writes
              /\ relocs' = relocs
              /\ currentMessages' = currentMessages
              /\ idx' = idx]_vars
    /\ [][pc # "aborted"]_vars
    /\ []((\E i \in DOMAIN messages : Malformed(messages[i].ts)) => pc # "done")
    /\ []((pc = "aborted" /\ Malformed(messages[idx].ts)) =>
              /\ \A n \in DOMAIN writes : writes[n].at < idx
              /\ \A n \in DOMAIN relocs : relocs[n].at < idx
              /\ \A m \in Range(currentMessages) : Holders(fs, m) = {})

\* The abort at the third message, after the write of the first message's
\* day, with the second message in the open bucket.
C17_Witness ==
    /\ pc = "aborted"
    /\ idx = 3
    /\ Malformed(messages[3].ts)
    /\ raised # "none"
    /\ Len(writes) = 2
    /\ writes[2].msgs = <<messages[1]>>
    /\ currentMessages = <<messages[2]>>

====
